---------------------------- MODULE Spec2Model ----------------------------
(* Model of VitalArticlesBot (src/VitalArticlesBot/update_vital_article_counts.py). *)
(*                                                                          *)
(* Text is modelled as a sequence of tokens (a "string" is a Seq of TLA+    *)
(* strings): every whitespace run, punctuation mark, number and word is a   *)
(* token of its own, so that lower(), strip(), split(), "x in s", count()   *)
(* and the two regular expressions of treat_page are computed on the text   *)
(* and not assumed.                                                         *)
EXTENDS Integers, Sequences, FiniteSets, TLC

VARIABLES
    text,             \* self.current_page.text as read at line 195, parsed: a Seq of lines
    page,             \* the wikicode tree of current_page: a Seq of lines, each a Seq of nodes
    talk,             \* the talk page "Talk:Foo": [templates, text]
    switch_text,      \* text of the shut-off page User:Bot0612/shutoff/9
    skip_assessment,  \* the -skipassessment option
    pc,               \* position in treat_page
    secs,             \* the section views returned by get_sections(include_lead=False)
    si,               \* index of the next section view to recount
    headers,          \* per section view recounted: article_count, has_quota, old and new header
    total_count,      \* treat_page's total_count
    li,               \* index of the next line of line_list
    quality,          \* last return value of get_vital_article_quality, with the scan's locals
    last,             \* the last reconciled line: before, after, and the assessment used
    crash,            \* the uncaught exception that ended treat_page, "" if none
    put_count,        \* number of put_current calls
    saved,            \* the text handed to put_current
    exit_status       \* status passed to exit(), -1 if exit was not called

vars == <<text, page, talk, switch_text, skip_assessment, pc, secs, si, headers, total_count,
          li, quality, last, crash, put_count, saved, exit_status>>

-----------------------------------------------------------------------------
(* Bounds of the model *)

\* longest talk page (number of templates) drawn by Init
MaxTalkTemplates == 2
\* largest number of icon markers on a drawn list-item line
MaxIcons == 2
\* largest number of sections on a drawn page
MaxSections == 2

-----------------------------------------------------------------------------
(* str methods on token sequences *)

Min(S) == CHOOSE x \in S : \A y \in S : x <= y
Max(S) == CHOOSE x \in S : \A y \in S : x >= y
Range(s) == {s[i] : i \in DOMAIN s}

\* str.lower(), token by token
LowerTab ==
    [t \in {"A", "B", "C", "FA", "FL", "GA", "DGA", "FFA", "FFAC", "Start", "Stub",
            "Bplus", "List", "Dab", "Icon", "ICON", "DelistedGA", "ArticleHistory",
            "Article history", "ArticleMilestones", "AH", "Huge"} |->
        CASE t = "A" -> "a" [] t = "B" -> "b" [] t = "C" -> "c"
          [] t = "FA" -> "fa" [] t = "FL" -> "fl" [] t = "GA" -> "ga"
          [] t = "DGA" -> "dga" [] t = "FFA" -> "ffa" [] t = "FFAC" -> "ffac"
          [] t = "Start" -> "start" [] t = "Stub" -> "stub" [] t = "Bplus" -> "bplus"
          [] t = "List" -> "list" [] t = "Dab" -> "dab"
          [] t = "Icon" -> "icon" [] t = "ICON" -> "icon"
          [] t = "DelistedGA" -> "delistedga"
          [] t = "ArticleHistory" -> "articlehistory"
          [] t = "Article history" -> "article history"
          [] t = "ArticleMilestones" -> "articlemilestones"
          [] t = "AH" -> "ah" [] t = "Huge" -> "huge"]

LowerTok(t) == IF t \in DOMAIN LowerTab THEN LowerTab[t] ELSE t

Lower(s) == [i \in DOMAIN s |-> LowerTok(s[i])]

IsSpace(t) == t \in {" ", "\n"}

\* str.strip()
Strip(s) ==
    LET keep == {i \in DOMAIN s : ~IsSpace(s[i])}
    IN  IF keep = {} THEN <<>> ELSE SubSeq(s, Min(keep), Max(keep))

\* str.strip(chars) for a set of one-character-class tokens
StripToks(s, chars) ==
    LET keep == {i \in DOMAIN s : s[i] \notin chars}
    IN  IF keep = {} THEN <<>> ELSE SubSeq(s, Min(keep), Max(keep))

\* "sub in s" for a token sequence sub
Contains(s, sub) ==
    \E i \in 1..(Len(s) - Len(sub) + 1) : SubSeq(s, i, i + Len(sub) - 1) = sub

\* str.count(sub): occurrences of sub (they cannot overlap for the patterns used)
CountSub(s, sub) ==
    Cardinality({i \in 1..(Len(s) - Len(sub) + 1) : SubSeq(s, i, i + Len(sub) - 1) = sub})

\* s.split(sep)[k], k counted from 0; <<"IndexError">> when there is no such piece
SplitPiece(s, sep, k) ==
    LET cuts  == {i \in DOMAIN s : s[i] = sep}
        nth(j) == CHOOSE i \in cuts : Cardinality({c \in cuts : c < i}) = j - 1
        from == IF k = 0 THEN 1 ELSE nth(k) + 1
        to   == IF k = Cardinality(cuts) THEN Len(s) ELSE nth(k + 1) - 1
    IN  IF k > Cardinality(cuts) THEN <<"IndexError">> ELSE SubSeq(s, from, to)

\* s.split(sep)[-1]
SplitLast(s, sep) ==
    LET cuts == {i \in DOMAIN s : s[i] = sep}
    IN  IF cuts = {} THEN s ELSE SubSeq(s, Max(cuts) + 1, Len(s))

RECURSIVE Flatten(_)
Flatten(ss) == IF ss = <<>> THEN <<>> ELSE Head(ss) \o Flatten(Tail(ss))

-----------------------------------------------------------------------------
(* mwparserfromhell nodes *)

\* A template parameter; str(param) is "name=value", or "value" when positional
Param(name, showkey, value) == [name |-> name, showkey |-> showkey, value |-> value]
Positional(value) == Param(<<"1">>, FALSE, value)
Named(name, value) == Param(<<name>>, TRUE, value)

ParamStr(p) == IF p.showkey THEN p.name \o <<"=">> \o p.value ELSE p.value

Template(name, params) == [kind |-> "template", name |-> name, params |-> params]
Text(toks) == [kind |-> "text", toks |-> toks]
Tag(markup) == [kind |-> "tag", toks |-> <<markup>>]
Wikilink(title) == [kind |-> "link", toks |-> title]
Heading(toks) == [kind |-> "heading", toks |-> toks]

\* Template.has(name) / Template.get(name): the last parameter of that name
HasParam(t, name) == \E i \in DOMAIN t.params : Strip(t.params[i].name) = <<name>>
GetParamIdx(t, name) == Max({i \in DOMAIN t.params : Strip(t.params[i].name) = <<name>>})
GetParam(t, name) == t.params[GetParamIdx(t, name)]

RECURSIVE RenderParams(_)
RenderParams(ps) ==
    IF ps = <<>> THEN <<>> ELSE <<"|">> \o ParamStr(Head(ps)) \o RenderParams(Tail(ps))

\* str(node)
Str(node) ==
    CASE node.kind = "template" -> <<"{{">> \o node.name \o RenderParams(node.params) \o <<"}}">>
      [] node.kind = "link" -> <<"[[">> \o node.toks \o <<"]]">>
      [] OTHER -> node.toks

StrLine(line) == Flatten([i \in DOMAIN line |-> Str(line[i])])

-----------------------------------------------------------------------------
(* VitalArticlesBot class attributes *)

assessment_order ==
    <<"fa", "fl", "a", "ga", "bplus", "b", "c", "start", "stub", "dab", "list", "unassessed">>
no_replace_list == {<<"dga">>, <<"ffa">>, <<"ffac">>}
dga_templates == {<<"dga">>, <<"delistedga">>}
article_history_templates ==
    {<<"article history">>, <<"articlehistory">>, <<"articlemilestones">>, <<"ah">>}

\* "x in self.assessment_order" for a str x
InAssessmentOrder(s) == Len(s) = 1 /\ s[1] \in Range(assessment_order)

\* self.assessment_order.index(x) if x in self.assessment_order else 255
SortKey(x) ==
    IF x \in Range(assessment_order)
    THEN (CHOOSE i \in DOMAIN assessment_order : assessment_order[i] = x) - 1
    ELSE 255

\* list.sort(key=...): stable, by insertion
RECURSIVE InsertSorted(_, _)
InsertSorted(sorted, x) ==
    IF sorted = <<>> THEN <<x>>
    ELSE IF SortKey(Head(sorted)) <= SortKey(x)
         THEN <<Head(sorted)>> \o InsertSorted(Tail(sorted), x)
         ELSE <<x>> \o sorted

RECURSIVE SortAssessmentsFrom(_, _)
SortAssessmentsFrom(done, rest) ==
    IF rest = <<>> THEN done ELSE SortAssessmentsFrom(InsertSorted(done, Head(rest)), Tail(rest))

\* variant: the list is left in document order
UnsortedAssessments(assessments) == assessments
\* assessments.sort(key=...), line 177
SortAssessments(assessments) == SortAssessmentsFrom(<<>>, assessments)

-----------------------------------------------------------------------------
(* get_vital_article_quality *)

\* ass.lower(), then ass.split("<!")[0].strip()
sanitise_assessment(ass) == Strip(SplitPiece(Lower(ass), "<!", 0))

\* template.get("currentstatus").split("=")[1].strip()
CurStatus(t) == Strip(SplitPiece(ParamStr(GetParam(t, "currentstatus")), "=", 1))

\* the try block at lines 164-169: the class of a banner, appended when recognised
ClassStep(st, t) ==
    IF HasParam(t, "class")
    THEN LET assessment ==
                 sanitise_assessment(SplitPiece(ParamStr(GetParam(t, "class")), "=", 1))
         IN  IF InAssessmentOrder(assessment)
             THEN [st EXCEPT !.assessments = Append(@, assessment[1])]
             ELSE st
    ELSE st

\* variant of the article-history branch: the flags are or-ed, not overwritten
HistoryStepOr(st, t) ==
    IF HasParam(t, "currentstatus")
    THEN [st EXCEPT !.is_dga = @ \/ Lower(CurStatus(t)) = <<"dga">>,
                    !.is_ffa = @ \/ Lower(CurStatus(t)) = <<"ffa">>]
    ELSE st
\* the article-history branch, lines 155-162
HistoryStep(st, t) ==
    IF HasParam(t, "currentstatus")
    THEN [st EXCEPT !.is_dga = Lower(CurStatus(t)) = <<"dga">>,
                    !.is_ffa = Lower(CurStatus(t)) = <<"ffa">>]
    ELSE st

\* one iteration of the loop over talk_wikicode.filter_templates()
ScanStep(st, t) ==
    LET template_name_lower == Lower(t.name)
    IN  IF template_name_lower \in dga_templates
        THEN ClassStep([st EXCEPT !.is_dga = TRUE], t)
        ELSE IF template_name_lower \in article_history_templates
             THEN HistoryStep(st, t)
             ELSE ClassStep(st, t)

RECURSIVE ScanFrom(_, _)
ScanFrom(st, templates) ==
    IF templates = <<>> THEN st ELSE ScanFrom(ScanStep(st, Head(templates)), Tail(templates))

\* the locals after the loop
ScanTemplates(templates) ==
    ScanFrom([assessments |-> <<>>, is_dga |-> FALSE, is_ffa |-> FALSE], templates)

\* talk_page.text
TalkText(tp) == Flatten([i \in DOMAIN tp.templates |-> Str(tp.templates[i])]) \o tp.text

\* variant of the return: the flags of the scan also when no class was collected
ReturnScanFlags(st, tp) ==
    [class |-> IF Len(st.assessments) > 0 THEN SortAssessments(st.assessments)[1]
               ELSE IF Contains(TalkText(tp), <<"WikiProject Disambiguation">>) THEN "dab"
               ELSE "unassessed",
     is_dga |-> st.is_dga, is_ffa |-> st.is_ffa]
\* lines 171-178: what is returned, given the locals after the loop
ReturnQuality(st, tp) ==
    IF Len(st.assessments) = 0
    THEN [class |-> IF Contains(TalkText(tp), <<"WikiProject Disambiguation">>)
                    THEN "dab" ELSE "unassessed",
          is_dga |-> FALSE, is_ffa |-> FALSE]
    ELSE [class |-> SortAssessments(st.assessments)[1],
          is_dga |-> st.is_dga, is_ffa |-> st.is_ffa]

\* the wiki: "Old" redirects to "Foo"; only Talk:Foo has text
EmptyTalk == [templates |-> <<>>, text |-> <<>>]
isRedirectPage(title) == title = <<"Old">>
getRedirectTarget(title) == <<"Foo">>
TalkTitle(page_title) ==
    IF isRedirectPage(page_title)
    THEN <<"Talk:">> \o getRedirectTarget(page_title)
    ELSE <<"Talk:">> \o page_title
TalkPageOf(page_title, tp) ==
    IF TalkTitle(page_title) = <<"Talk:", "Foo">> THEN tp ELSE EmptyTalk

\* the return value, together with the locals of the scan and the talk page read
QualityRecord(r, st, talk_page) ==
    [class |-> r.class, is_dga |-> r.is_dga, is_ffa |-> r.is_ffa,
     assessments |-> st.assessments, scan_dga |-> st.is_dga, scan_ffa |-> st.is_ffa,
     talk_page |-> talk_page]
QualityFrom(st, talk_page) == QualityRecord(ReturnQuality(st, talk_page), st, talk_page)
QualityOf(talk_page) == QualityFrom(ScanTemplates(talk_page.templates), talk_page)
get_vital_article_quality(page_title, tp) == QualityOf(TalkPageOf(page_title, tp))

-----------------------------------------------------------------------------
(* Numbers in text *)

\* str(n) for the counts the model reaches
NumToks ==
    <<"0", "1", "2", "3", "4", "5", "6", "7", "8", "9", "10", "11", "12", "13", "14", "15",
      "16", "17", "18", "19", "20", "21", "22", "23", "24", "25", "26", "27", "28", "29",
      "30", "31", "32", "33", "34", "35", "36", "37", "38", "39", "40", "41", "42", "43",
      "44", "45", "46", "47", "48", "49", "50", "51", "52", "53", "54", "55", "56", "57",
      "58", "59", "60">>
NumStr(n) == NumToks[n + 1]

\* a token matched by [0-9,]+
IsNum(t) == t \in Range(NumToks) \cup {"1,000"}

\* int(s) raises ValueError on a comma
IntOk(t) == t \in Range(NumToks)
ParseInt(t) == (CHOOSE i \in DOMAIN NumToks : NumToks[i] = t) - 1

-----------------------------------------------------------------------------
(* Headings and section views *)

At(h, p) == IF p \in DOMAIN h THEN h[p] ELSE "$"

\* the first index from p on whose token is not a space (not a heading mark)
RECURSIVE SkipSpaces(_, _)
SkipSpaces(h, p) == IF p <= Len(h) /\ IsSpace(h[p]) THEN SkipSpaces(h, p + 1) ELSE p
RECURSIVE SkipMarks(_, _)
SkipMarks(h, p) == IF p <= Len(h) /\ h[p] = "=" THEN SkipMarks(h, p + 1) ELSE p

\* the heading level mwparserfromhell gives a heading line: the shorter run of marks, at most 6
HeadingLevel(h) ==
    LET lead  == SkipMarks(h, 1) - 1
        trail == Len(h) - Max({q \in 0..Len(h) : At(h, q) # "="})
    IN  Min({lead, trail, 6})

IsHeadingLine(line) == Len(line) = 1 /\ line[1].kind = "heading"

HeadingLines(pg) == {i \in DOMAIN pg : IsHeadingLine(pg[i])}

\* wikicode.get_sections(include_lead=False): a heading with everything up to the next
\* heading of the same or a higher level, in document order
SectionEnd(pg, i) ==
    LET lvl == HeadingLevel(pg[i][1].toks)
        stops == {j \in HeadingLines(pg) : j > i /\ HeadingLevel(pg[j][1].toks) <= lvl}
    IN  IF stops = {} THEN Len(pg) ELSE Min(stops) - 1

RECURSIVE SectionsFrom(_, _)
SectionsFrom(pg, i) ==
    IF i > Len(pg) THEN <<>>
    ELSE IF IsHeadingLine(pg[i])
         THEN <<[start |-> i, end |-> SectionEnd(pg, i)]>> \o SectionsFrom(pg, i + 1)
         ELSE SectionsFrom(pg, i + 1)

get_sections(pg) == SectionsFrom(pg, 1)

\* wikicode.get_sections(levels=[i])
SectionsAtLevel(pg, lvl) == {i \in HeadingLines(pg) : HeadingLevel(pg[i][1].toks) = lvl}

\* str(section): its lines, each followed by a newline
RECURSIVE SectionTextFrom(_, _, _)
SectionTextFrom(pg, i, to) ==
    IF i > to THEN <<>> ELSE StrLine(pg[i]) \o <<"\n">> \o SectionTextFrom(pg, i + 1, to)

SectionText(pg, sec) == SectionTextFrom(pg, sec.start, sec.end)
OwnHeadingText(pg, sec) == StrLine(pg[sec.start])

PrimaryCount(body) == CountSub(body, <<"#", " ", "{{", "Icon">>)
SecondaryCount(body) == CountSub(body, <<"*", " ", "{{", "Icon">>)
\* variant: both patterns are counted
ArticleCountSum(body) == PrimaryCount(body) + SecondaryCount(body)
\* section.count("# {{Icon"), then section.count("* {{Icon") when that is 0
ArticleCount(body) == IF PrimaryCount(body) = 0 THEN SecondaryCount(body) ELSE PrimaryCount(body)

\* "quota" in str(section)
QuotaIn(body) == \E i \in DOMAIN body : body[i] \in {"quota", "quotas"}

-----------------------------------------------------------------------------
(* The header pattern of line 202, matched at the start of the heading:          *)
(* (=+)\s*(.+?)\s*[\(:]\s*?([0-9,]+)\s*(?:articles?)?\s*(/\s*[0-9,]+)?\s*        *)
(* (?:articles?| quota)?\)?\s*=+                                                  *)
(* The pattern is matched against str(section); the title (.+?) cannot cross a    *)
(* newline, so a match leaves the heading line only when the next line starts     *)
(* with "(" or ":", which no line of the pages drawn does: the pattern is         *)
(* computed on the heading line.                                                  *)

IsArticleWord(t) == t \in {"article", "articles"}

\* (?:articles?)? at p
OptArticle(h, p) == IF IsArticleWord(At(h, p)) THEN p + 1 ELSE p

\* (?:articles?| quota)? at p, p being behind the spaces \s* has taken
OptArticleOrQuota(h, p) ==
    IF IsArticleWord(At(h, p)) THEN p + 1
    ELSE IF At(h, p) = "quota" /\ At(h, p - 1) = " " THEN p + 1
    ELSE p

\* \)? at p
OptParen(h, p) == IF At(h, p) = ")" THEN p + 1 ELSE p

\* (/\s*[0-9,]+)? at p: whether it matches, its text, and where it ends
HasDen(h, p) == At(h, p) = "/" /\ IsNum(At(h, SkipSpaces(h, p + 1)))
DenText(h, p) == IF HasDen(h, p) THEN SubSeq(h, p, SkipSpaces(h, p + 1)) ELSE <<>>
DenEnd(h, p) == IF HasDen(h, p) THEN SkipSpaces(h, p + 1) + 1 ELSE p

\* \s*(?:articles?)?\s* from p (just behind the count): where the denominator may start
DenStart(h, p) == SkipSpaces(h, OptArticle(h, SkipSpaces(h, p)))

\* \s*(?:articles?)?\s*(/\s*[0-9,]+)?\s*(?:articles?| quota)? from p (just behind the count)
CountSuffix(h, p) ==
    [den |-> DenText(h, DenStart(h, p)),
     next |-> OptArticleOrQuota(h, SkipSpaces(h, DenEnd(h, DenStart(h, p))))]

\* the pattern from \s*[\(:] on, tried at p: p1 is the bracket, p2 the count, sfx what
\* follows the count, p10 the closing marks
TailResult(h, p1, p2, sfx, p10) ==
    IF At(h, p1) \in {"(", ":"} /\ IsNum(At(h, p2)) /\ At(h, p10) = "="
    THEN [ok |-> TRUE, count |-> At(h, p2), den |-> sfx.den, end |-> SkipMarks(h, p10) - 1]
    ELSE [ok |-> FALSE, count |-> "", den |-> <<>>, end |-> 0]
TailSuffix(h, p1, p2, sfx) == TailResult(h, p1, p2, sfx, SkipSpaces(h, OptParen(h, sfx.next)))
TailCount(h, p1, p2) == TailSuffix(h, p1, p2, CountSuffix(h, p2 + 1))
TailBracket(h, p1) == TailCount(h, p1, SkipSpaces(h, p1 + 1))
HeaderTail(h, p) == TailBracket(h, SkipSpaces(h, p))

\* the ends of a title (.+?) after which the rest of the pattern matches
TitleEnds(h) == {e \in DOMAIN h : HeaderTail(h, e + 1).ok}

\* a title from s to e: at least one character, none a newline
Fits(h, s, e) == s <= e /\ \A q \in s..e : h[q] # "\n"

\* re.match: the marks (=+) greedy, the spaces \s* greedy, the title (.+?) lazy
MatchResult(h, a, s, e, tail) ==
    [matched |-> TRUE, marks |-> SubSeq(h, 1, a), title |-> SubSeq(h, s, e),
     count |-> tail.count, den |-> tail.den, end |-> tail.end]
MatchEnd(h, a, s, e) == MatchResult(h, a, s, e, HeaderTail(h, e + 1))
MatchTitle(h, ends, a, s) == MatchEnd(h, a, s, Min({x \in ends : Fits(h, s, x)}))
MatchMarks(h, ends, a) ==
    MatchTitle(h, ends, a,
               Max({t \in (a + 1)..SkipSpaces(h, a + 1) : \E e \in ends : Fits(h, t, e)}))
MarkChoices(h, ends) ==
    {a \in 1..(SkipMarks(h, 1) - 1) : \E e \in ends : Fits(h, a + 1, e)}
MatchWith(h, ends) ==
    IF MarkChoices(h, ends) = {} THEN [matched |-> FALSE]
    ELSE MatchMarks(h, ends, Max(MarkChoices(h, ends)))

old_header_match(h) == MatchWith(h, TitleEnds(h))

\* str.replace("article quota", "quota")
RECURSIVE ReplaceArticleQuota(_)
ReplaceArticleQuota(s) ==
    IF Len(s) >= 3 /\ SubSeq(s, 1, 3) = <<"article", " ", "quota">>
    THEN <<"quota">> \o ReplaceArticleQuota(SubSeq(s, 4, Len(s)))
    ELSE IF s = <<>> THEN <<>>
    ELSE <<Head(s)>> \o ReplaceArticleQuota(Tail(s))

\* lines 207-214
new_header(m, article_count, has_quota) ==
    ReplaceArticleQuota(
        m.marks \o m.title \o <<" ", "(", NumStr(article_count)>> \o m.den
        \o <<" ">> \o <<IF article_count = 1 \/ has_quota THEN "article" ELSE "articles">>
        \o (IF has_quota THEN <<" ", "quota">> ELSE <<>>)
        \o <<")">> \o m.marks)

\* has_quota, line 203: "quota" in str(section), the heading and the body
has_quota(h, body) == QuotaIn(body)

\* the heading after lines 199-215 for one section view; unchanged when there is no match
Rewritten(h, m, body) ==
    IF ~m.matched THEN h
    ELSE new_header(m, ArticleCount(body), has_quota(h, body)) \o SubSeq(h, m.end + 1, Len(h))
RewrittenHeading(pg, sec) ==
    Rewritten(OwnHeadingText(pg, sec), old_header_match(OwnHeadingText(pg, sec)),
              SectionText(pg, sec))

-----------------------------------------------------------------------------
(* Total aggregation, lines 218-228; the pattern of line 224, searched in the heading: *)
(* ([0-9,]+)\s*(?:articles?)?\s*(/\s*[0-9,]+)?\s*(?:articles?| quota)?\)               *)

\* re.search: the leftmost count that the rest of the pattern follows
heading_match(h) ==
    LET starts == {p \in DOMAIN h : IsNum(h[p]) /\ At(h, CountSuffix(h, p + 1).next) = ")"}
    IN  IF starts = {} THEN [matched |-> FALSE]
        ELSE [matched |-> TRUE, count |-> h[Min(starts)]]

\* variant: the last depth of range(1, 10) that has a section
DeepestLevel(pg) ==
    LET used == {l \in 1..9 : SectionsAtLevel(pg, l) # {}}
    IN  IF used = {} THEN 0 ELSE Max(used)
\* the first depth of range(1, 10) that has a section; 0 when the page has none
FirstLevel(pg) ==
    LET used == {l \in 1..9 : SectionsAtLevel(pg, l) # {}}
    IN  IF used = {} THEN 0 ELSE Min(used)

\* the headings the loop of lines 222-227 adds up
CountedHeadings(pg) ==
    {i \in SectionsAtLevel(pg, FirstLevel(pg)) : heading_match(pg[i][1].toks).matched}

RECURSIVE SumCounts(_, _)
SumCounts(pg, S) ==
    IF S = {} THEN 0
    ELSE LET i == Min(S)
         IN  ParseInt(heading_match(pg[i][1].toks).count) + SumCounts(pg, S \ {i})

\* int(heading_match.group(1)) raises ValueError for a count written with a comma
TotalRaises(pg) == \E i \in CountedHeadings(pg) : ~IntOk(heading_match(pg[i][1].toks).count)
TotalCount(pg) == SumCounts(pg, CountedHeadings(pg))

-----------------------------------------------------------------------------
(* The summary marker, lines 231-237 *)

\* template.name.matches("huge")
IsHuge(node) == node.kind = "template" /\ Strip(node.name) \in {<<"huge">>, <<"Huge">>}

\* template.get("1") raises ValueError when the marker has no first parameter
HugeRaises(pg) ==
    \E i \in DOMAIN pg : \E j \in DOMAIN pg[i] : IsHuge(pg[i][j]) /\ ~HasParam(pg[i][j], "1")

\* "/{}".format(param.split("/")[-1].strip("'")) when "/" in param
Denominator(param) ==
    IF "/" \in Range(ParamStr(param))
    THEN <<"/">> \o StripToks(SplitLast(ParamStr(param), "/"), {"'", "''", "'''"})
    ELSE <<>>

\* template.add("1", value): the value of the existing parameter is replaced
AddParam1(t, value) ==
    IF HasParam(t, "1")
    THEN [t EXCEPT !.params[GetParamIdx(t, "1")].value = value]
    ELSE [t EXCEPT !.params = Append(@, Positional(value))]

HugeUpdated(t, total) ==
    AddParam1(t, <<"Total", " ", "articles", ":", " ", NumStr(total)>>
                 \o Denominator(GetParam(t, "1")))

UpdateHugeTemplates(pg, total) ==
    [i \in DOMAIN pg |->
        [j \in DOMAIN pg[i] |->
            IF IsHuge(pg[i][j]) THEN HugeUpdated(pg[i][j], total) ELSE pg[i][j]]]

-----------------------------------------------------------------------------
(* Lines and the article link, lines 181-190 and 241-248 *)

\* get_article_link: the first item with "[[" and without "<"; <<>> stands for None
LinkItems(line) ==
    {i \in DOMAIN line : "[[" \in Range(Str(line[i])) /\ "<" \notin Range(Str(line[i]))}
get_article_link(line) ==
    IF LinkItems(line) = {} THEN <<>>
    ELSE LET bare_name == StripToks(Str(line[Min(LinkItems(line))]), {"[[", "]]", "'", "''"})
         IN  IF "|" \in Range(bare_name) THEN SplitPiece(bare_name, "|", 0) ELSE bare_name

\* line 245
IsListItem(line) == Str(line[1]) = <<"#">> \/ Str(line[1]) = <<"*">>

\* line 247
SkippedTitle(article_title) ==
    \/ article_title = <<>>
    \/ \E i \in DOMAIN article_title :
          article_title[i] \in {"Wikipedia:", "Category:", "User:", "Template:", "Portal:"}

-----------------------------------------------------------------------------
(* Icon reconciliation of one line, lines 252-276.  The items of the line are  *)
(* referred to by their position in the list built at line 241 (their id); the *)
(* tree holds the same nodes and is what remove and insert_after change.       *)

\* "{{icon" in item.lower()
IsIconItem(node) == Contains(Lower(Str(node)), <<"{{", "icon">>)

Ids(cur) == {cur[i].id : i \in DOMAIN cur}
PosOf(cur, id) == CHOOSE i \in DOMAIN cur : cur[i].id = id
NodeOf(cur, id) == cur[PosOf(cur, id)].node

\* wikicode.remove(item)
RemoveNode(cur, id) ==
    LET p == PosOf(cur, id) IN SubSeq(cur, 1, p - 1) \o SubSeq(cur, p + 1, Len(cur))

SetNode(cur, id, node) == [cur EXCEPT ![PosOf(cur, id)].node = node]

\* wikicode.insert_after(obj, " {{icon|<code>}}"): a space and a new template behind obj
InsertAfter(cur, id, code) ==
    LET p == PosOf(cur, id)
    IN  SubSeq(cur, 1, p)
        \o <<[id |-> 0, node |-> Text(<<" ">>)],
             [id |-> 0, node |-> Template(<<"icon">>, <<Positional(<<code>>)>>)]>>
        \o SubSeq(cur, p + 1, Len(cur))

\* insert_after raises ValueError when obj is None or no longer in the tree
InsertRaises(cur, id) == id = 0 \/ id \notin Ids(cur)

\* which template the sentinels are inserted behind: every icon item assigns first_templ
FirstTempl(st, k) == k

\* variant of line 263 without the count < 1 condition
OverwritesAny(st, existing_assessment, article_assessment) ==
    /\ existing_assessment # <<article_assessment>>
    /\ existing_assessment \notin no_replace_list
\* line 263: whether the parameter is overwritten with the resolved class
Overwrites(st, existing_assessment, article_assessment) ==
    /\ existing_assessment # <<article_assessment>>
    /\ existing_assessment \notin no_replace_list
    /\ st.count < 1

\* lines 268-270: whether the item is removed
Removes(dga_found, ffa_found, article_assessment) ==
    \/ dga_found /\ article_assessment = "ga"
    \/ ffa_found /\ article_assessment = "fa"

\* one iteration of the loop of line 256, for the item with id k
IconStepParam(st, k, article_assessment, item, existing_assessment, dga, ffa) ==
    [cur |-> IF Removes(dga, ffa, article_assessment)
             THEN RemoveNode(
                    IF Overwrites(st, existing_assessment, article_assessment)
                    THEN SetNode(st.cur, k, AddParam1(item, <<article_assessment>>))
                    ELSE st.cur, k)
             ELSE IF Overwrites(st, existing_assessment, article_assessment)
                  THEN SetNode(st.cur, k, AddParam1(item, <<article_assessment>>))
                  ELSE st.cur,
     count |-> st.count + 1, dga_found |-> dga, ffa_found |-> ffa,
     first_templ |-> FirstTempl(st, k)]
IconStepExisting(st, k, article_assessment, item, existing_assessment) ==
    IconStepParam(st, k, article_assessment, item, existing_assessment,
                  st.dga_found \/ existing_assessment = <<"dga">>,
                  st.ffa_found \/ existing_assessment = <<"ffa">>)
IconStepItem(st, k, article_assessment, item) ==
    IF ~IsIconItem(item) THEN st
    ELSE IF ~HasParam(item, "1") THEN [st EXCEPT !.first_templ = FirstTempl(st, k)]
    ELSE IconStepExisting(st, k, article_assessment, item,
                          Lower(ParamStr(GetParam(item, "1"))))
IconStep(st, k, article_assessment) ==
    IconStepItem(st, k, article_assessment, NodeOf(st.cur, k))

RECURSIVE IconLoop(_, _, _, _)
IconLoop(st, k, n, article_assessment) ==
    IF k > n THEN st ELSE IconLoop(IconStep(st, k, article_assessment), k + 1, n, article_assessment)

\* lines 273-276 for one sentinel
InsertSentinel(r, st, wanted, found, code) ==
    IF r.raised \/ ~(wanted /\ ~found) THEN r
    ELSE IF InsertRaises(r.cur, st.first_templ) THEN [r EXCEPT !.raised = TRUE]
    ELSE [r EXCEPT !.cur = InsertAfter(r.cur, st.first_templ, code)]

\* lines 252-276: the line of the tree afterwards, and whether ValueError was raised
ReconcileResult(st, r) ==
    [raised |-> r.raised,
     line |-> [i \in DOMAIN r.cur |-> r.cur[i].node],
     first_templ |-> st.first_templ,
     dga_found |-> st.dga_found, ffa_found |-> st.ffa_found]
ReconcileInserts(st, q) ==
    ReconcileResult(st,
        InsertSentinel(
            InsertSentinel([raised |-> FALSE, cur |-> st.cur], st, q.is_dga, st.dga_found, "dga"),
            st, q.is_ffa, st.ffa_found, "ffa"))
\* the items of line_list's line, each with its id
RECURSIVE ItemsFrom(_, _)
ItemsFrom(line, i) ==
    IF i > Len(line) THEN <<>>
    ELSE <<[id |-> i, node |-> line[i]]>> \o ItemsFrom(line, i + 1)
Reconcile(line, q) ==
    ReconcileInserts(
        IconLoop([cur |-> ItemsFrom(line, 1),
                  count |-> 0, dga_found |-> FALSE, ffa_found |-> FALSE, first_templ |-> 0],
                 1, Len(line), q.class),
        q)

\* variant: the switch is not consulted
SwitchAlwaysOn(shutoff) == TRUE
\* check_page.text.strip() == "active", line 81
check_task_switch_is_on(shutoff) == Strip(shutoff) = <<"active">>

-----------------------------------------------------------------------------
(* The inputs Init draws: talk pages, list-item lines and pages with sections *)

\* all sequences over S of length at most n
SeqsUpTo(S, n) == UNION {[1..k -> S] : k \in 0..n}

Banner(class) == Template(<<"WikiProject Biography">>, <<Named("class", class)>>)
History(status) == Template(<<"ArticleHistory">>, <<Named("currentstatus", status)>>)

TalkTemplateSamples ==
    { Template(<<"DelistedGA">>, <<>>),
      Template(<<"DelistedGA">>, <<Named("class", <<"C">>)>>),
      History(<<"FFA">>),
      History(<<"GA">>),
      Template(<<"Article history">>, <<Named("currentstatus", <<" ", "DGA", "\n">>)>>),
      Template(<<"ArticleMilestones">>, <<Named("class", <<"FA">>)>>),
      Banner(<<"B">>),
      Banner(<<"Start">>),
      Banner(<<" ", "GA", " ", "<!", "--", "reassessed", "-->">>),
      Banner(<<"future">>),
      Template(<<"WikiProject Disambiguation">>, <<>>) }

TalkTextSamples == { <<>>, <<"See", " ", "WikiProject Disambiguation">> }

\* the talk pages of the icon runs: every combination of the two flags and a class
TalkFor(delisted, status, class) ==
    [templates |->
        (IF delisted THEN <<Template(<<"DelistedGA">>, <<>>)>> ELSE <<>>)
        \o (IF status # "" THEN <<History(<<status>>)>> ELSE <<>>)
        \o (IF class # "" THEN <<Banner(<<class>>)>> ELSE <<>>),
     text |-> <<>>]

TalkForLines ==
    {TalkFor(d, s, c) : d \in BOOLEAN, s \in {"", "FFA"}, c \in {"", "GA", "FA", "B"}}

Icon(name, code) == Template(<<name>>, <<Positional(<<code>>)>>)

IconSamples ==
    { Icon("Icon", "B"), Icon("Icon", "GA"), Icon("Icon", "FA"), Icon("icon", "dga"),
      Icon("Icon", "FFA"), Icon("Icon", "FFAC"),
      Template(<<"Icon">>, <<>>),
      Template(<<"Icon">>, <<Named("1", <<"B">>)>>) }

RECURSIVE Spaced(_)
Spaced(nodes) ==
    IF nodes = <<>> THEN <<>> ELSE <<Head(nodes), Text(<<" ">>)>> \o Spaced(Tail(nodes))

\* "# {{Icon|B}} [[Foo]]": a list marker, a space, the icons, the link
ItemLine(marker, icons, link) == <<Tag(marker), Text(<<" ">>)>> \o Spaced(icons) \o link

LinkSamples ==
    { <<Wikilink(<<"Foo">>)>>, <<Wikilink(<<"Old", "|", "Foo (old name)">>)>>,
      <<Wikilink(<<"Wikipedia:", "Vital articles">>)>>, <<>> }

H2(rest) == <<"=", "=", " ">> \o rest \o <<" ", "=", "=">>
H3(rest) == <<"=", "=", "=", " ">> \o rest \o <<" ", "=", "=", "=">>

HeadingSamples ==
    { H2(<<"Foo", " ", "(", "5", " ", "articles", ")">>),
      H2(<<"Foo", " ", "(", "3", "/", "10", " ", "quota", ")">>),
      H2(<<"Foo", ":", " ", "5">>),
      H2(<<"Notes">>),
      H2(<<"Foo", " ", "(", "about", " ", "12", " ", "articles", ")">>),
      H3(<<"Bar", " ", "(", "1", " ", "article", ")">>),
      H3(<<"Baz", " ", "(", "2", " ", "/", " ", "4", " ", "quota", ")">>) }

\* headings of the whole-page runs: a count with a comma behind a word, unbalanced
\* marks, a level-1 heading, a title with a number in parentheses
OddHeadingSamples ==
    { H2(<<"Foo", " ", "(", "about", " ", "1,000", " ", "articles", ")">>),
      <<"=", "=", "=", " ", "Sub", " ", "(", "4", " ", "articles", ")", " ", "=", "=">>,
      <<"=", " ", "Top", " ", "(", "9", " ", "articles", ")", " ", "=">>,
      H2(<<"Foo", " ", "(", "3", ")", " ", "(", "5", " ", "articles", ")">>) }

BodySamples ==
    { << ItemLine("#", <<Icon("Icon", "B")>>, <<Wikilink(<<"Foo">>)>>),
         ItemLine("#", <<Icon("Icon", "GA")>>, <<Wikilink(<<"Foo">>)>>),
         ItemLine("*", <<Icon("Icon", "C")>>, <<Wikilink(<<"Foo">>)>>) >>,
      << ItemLine("#", <<Icon("icon", "B")>>, <<Wikilink(<<"Foo">>)>>),
         ItemLine("*", <<Icon("Icon", "B")>>, <<Wikilink(<<"Foo">>)>>) >>,
      << <<Text(<<"See", " ", "also">>)>> >> }

HugeWithDenominator ==
    << <<Text(<<"'''">>),
         Template(<<"Huge">>,
             <<Positional(<<"'''", "Total", " ", "articles", ":", " ", "990", " ", "/",
                            "1000", "'''">>)>>)>> >>

LeadSamples ==
    { << <<Template(<<"huge">>,
               <<Positional(<<"Total", " ", "articles", ":", " ", "9">>)>>)>> >>,
      HugeWithDenominator,
      << <<Template(<<"huge">>, <<>>)>> >>,
      << <<Text(<<"Vital", " ", "articles">>)>> >> }

SwitchSamples == { <<"active">>, <<" ", "active", "\n">>, <<"inactive">>, <<>> }

\* a page: the lead, then each section's heading line and body lines
RECURSIVE SectionLines(_)
SectionLines(ss) ==
    IF ss = <<>> THEN <<>>
    ELSE << <<Heading(Head(ss)[1])>> >> \o Head(ss)[2] \o SectionLines(Tail(ss))

MixedBody ==
    << ItemLine("#", <<Icon("Icon", "B")>>, <<Wikilink(<<"Foo">>)>>),
       ItemLine("*", <<>>, <<Wikilink(<<"Wikipedia:", "Vital articles">>)>>),
       ItemLine("#", <<>>, <<Wikilink(<<"Foo">>)>>),
       ItemLine("#", <<Icon("Icon", "GA"), Icon("Icon", "DGA")>>, <<Wikilink(<<"Old">>)>>) >>

NoQuality ==
    [done |-> FALSE, class |-> "", is_dga |-> FALSE, is_ffa |-> FALSE, assessments |-> <<>>,
     scan_dga |-> FALSE, scan_ffa |-> FALSE, talk_page |-> EmptyTalk]

NoLine ==
    [done |-> FALSE, before |-> <<>>, after |-> <<>>, raised |-> FALSE, first_templ |-> 0,
     dga_found |-> FALSE, ffa_found |-> FALSE]

\* the state of treat_page at line 198, for a page, a talk page and the options
Start(pg, tp, sw, skip) ==
    /\ text = pg
    /\ page = pg
    /\ talk = tp
    /\ switch_text = sw
    /\ skip_assessment = skip
    /\ pc = "sections"
    /\ secs = get_sections(pg)
    /\ si = 1
    /\ headers = <<>>
    /\ total_count = 0
    /\ li = 1
    /\ quality = NoQuality
    /\ last = NoLine
    /\ crash = ""
    /\ put_count = 0
    /\ saved = <<>>
    /\ exit_status = -1

\* one list item, every talk page up to MaxTalkTemplates templates
InitTalk ==
    \E ts \in SeqsUpTo(TalkTemplateSamples, MaxTalkTemplates), tx \in TalkTextSamples,
       ln \in {<<Wikilink(<<"Foo">>)>>, <<Wikilink(<<"Old", "|", "Foo (old name)">>)>>} :
        Start(<<ItemLine("#", <<Icon("Icon", "B")>>, ln)>>,
              [templates |-> ts, text |-> tx], <<"active">>, FALSE)

\* one list item with up to MaxIcons icon markers, every resolved assessment
InitLine ==
    \E icons \in SeqsUpTo(IconSamples, MaxIcons), tp \in TalkForLines, ln \in LinkSamples :
        Start(<<ItemLine("#", icons, ln)>>, tp, <<"active">>, FALSE)

\* a lead and up to MaxSections sections, counts only
InitSections ==
    \E ss \in SeqsUpTo(HeadingSamples \X BodySamples, MaxSections) :
        Start(HugeWithDenominator \o SectionLines(ss), EmptyTalk, <<"active">>, TRUE)

\* a whole page, every switch text and option
InitMixed ==
    \E h \in OddHeadingSamples, lead \in LeadSamples,
       tp \in {TalkFor(d, "", c) : d \in BOOLEAN, c \in {"GA", "B"}},
       sw \in SwitchSamples, skip \in BOOLEAN :
        Start(lead \o << <<Heading(h)>> >> \o MixedBody, tp, sw, skip)

Init == InitTalk \/ InitLine \/ InitSections \/ InitMixed

-----------------------------------------------------------------------------
(* treat_page *)

\* the locals of one iteration of the loop of line 198
HeaderRecord(h, m, body, new) ==
    [article_count |-> ArticleCount(body), has_quota |-> has_quota(h, body),
     matched |-> m.matched, old_header |-> h, new_header |-> new]

\* lines 198-215 for a section whose heading matches: the heading node is replaced
RewriteSection ==
    /\ pc = "sections" /\ si <= Len(secs)
    /\ old_header_match(OwnHeadingText(page, secs[si])).matched
    /\ page' = [page EXCEPT ![secs[si].start] = <<Heading(RewrittenHeading(page, secs[si]))>>]
    /\ headers' = Append(headers,
                         HeaderRecord(OwnHeadingText(page, secs[si]), [matched |-> TRUE],
                                      SectionText(page, secs[si]),
                                      RewrittenHeading(page, secs[si])))
    /\ si' = si + 1
    /\ UNCHANGED <<text, talk, switch_text, skip_assessment, pc, secs, total_count, li,
                   quality, last, crash, put_count, saved, exit_status>>

\* lines 199-205: no match, continue
SkipSection ==
    /\ pc = "sections" /\ si <= Len(secs)
    /\ ~old_header_match(OwnHeadingText(page, secs[si])).matched
    /\ headers' = Append(headers,
                         HeaderRecord(OwnHeadingText(page, secs[si]), [matched |-> FALSE],
                                      SectionText(page, secs[si]), <<>>))
    /\ si' = si + 1
    /\ UNCHANGED <<text, page, talk, switch_text, skip_assessment, pc, secs, total_count, li,
                   quality, last, crash, put_count, saved, exit_status>>

\* lines 218-228
AggregateTotal ==
    /\ pc = "sections" /\ si > Len(secs)
    /\ IF TotalRaises(page)
       THEN /\ pc' = "crashed" /\ crash' = "ValueError: int() at line 227"
            /\ UNCHANGED total_count
       ELSE /\ pc' = "huge" /\ total_count' = TotalCount(page)
            /\ UNCHANGED crash
    /\ UNCHANGED <<text, page, talk, switch_text, skip_assessment, secs, si, headers, li,
                   quality, last, put_count, saved, exit_status>>

\* lines 231-239
UpdateHuge ==
    /\ pc = "huge"
    /\ IF HugeRaises(page)
       THEN /\ pc' = "crashed" /\ crash' = "ValueError: template.get at line 234"
            /\ UNCHANGED page
       ELSE /\ pc' = (IF skip_assessment THEN "switch" ELSE "lines")
            /\ page' = UpdateHugeTemplates(page, total_count)
            /\ UNCHANGED crash
    /\ UNCHANGED <<text, talk, switch_text, skip_assessment, secs, si, headers, total_count,
                   li, quality, last, put_count, saved, exit_status>>

\* lines 245-248: not a list item, no link, or a link into a project namespace
SkipLine ==
    /\ pc = "lines" /\ li <= Len(page)
    /\ ~IsListItem(page[li]) \/ SkippedTitle(get_article_link(page[li]))
    /\ li' = li + 1
    /\ UNCHANGED <<text, page, talk, switch_text, skip_assessment, pc, secs, si, headers,
                   total_count, quality, last, crash, put_count, saved, exit_status>>

\* lines 249-276 for one list item
Reconciled(q, r) ==
    /\ quality' = [done |-> TRUE, class |-> q.class, is_dga |-> q.is_dga,
                   is_ffa |-> q.is_ffa, assessments |-> q.assessments,
                   scan_dga |-> q.scan_dga, scan_ffa |-> q.scan_ffa,
                   talk_page |-> q.talk_page]
    /\ last' = [done |-> TRUE, before |-> page[li], after |-> r.line,
                raised |-> r.raised, first_templ |-> r.first_templ,
                dga_found |-> r.dga_found, ffa_found |-> r.ffa_found]
    /\ page' = [page EXCEPT ![li] = r.line]
    /\ IF r.raised
       THEN /\ pc' = "crashed" /\ crash' = "ValueError: insert_after at lines 274-276"
            /\ UNCHANGED li
       ELSE /\ li' = li + 1
            /\ UNCHANGED <<pc, crash>>

ReconcileWith(q) == Reconciled(q, Reconcile(page[li], q))

ReconcileLine ==
    /\ pc = "lines" /\ li <= Len(page)
    /\ IsListItem(page[li]) /\ ~SkippedTitle(get_article_link(page[li]))
    /\ ReconcileWith(get_vital_article_quality(get_article_link(page[li]), talk))
    /\ UNCHANGED <<text, talk, switch_text, skip_assessment, secs, si, headers, total_count,
                   put_count, saved, exit_status>>

\* the loop of line 244 is over
LinesDone ==
    /\ pc = "lines" /\ li > Len(page)
    /\ pc' = "switch"
    /\ UNCHANGED <<text, page, talk, switch_text, skip_assessment, secs, si, headers,
                   total_count, li, quality, last, crash, put_count, saved, exit_status>>

\* lines 278-281
PutCurrent ==
    /\ pc = "switch"
    /\ check_task_switch_is_on(switch_text)
    /\ put_count' = put_count + 1
    /\ saved' = page
    /\ pc' = "done"
    /\ UNCHANGED <<text, page, talk, switch_text, skip_assessment, secs, si, headers,
                   total_count, li, quality, last, crash, exit_status>>

\* lines 282-284
ExitSwitchOff ==
    /\ pc = "switch"
    /\ ~check_task_switch_is_on(switch_text)
    /\ exit_status' = 1
    /\ pc' = "exited"
    /\ UNCHANGED <<text, page, talk, switch_text, skip_assessment, secs, si, headers,
                   total_count, li, quality, last, crash, put_count, saved>>

Next ==
    \/ RewriteSection
    \/ SkipSection
    \/ AggregateTotal
    \/ UpdateHuge
    \/ SkipLine
    \/ ReconcileLine
    \/ LinesDone
    \/ PutCurrent
    \/ ExitSwitchOff

Spec == Init /\ [][Next]_vars

-----------------------------------------------------------------------------
(* The claims *)

\* an icon marker with a first parameter, and the markers' values on a line, lower-cased
IsMarker(node) == node.kind = "template" /\ IsIconItem(node) /\ HasParam(node, "1")
MarkerCodes(line) ==
    [i \in DOMAIN SelectSeq(line, IsMarker) |->
        Lower(ParamStr(GetParam(SelectSeq(line, IsMarker)[i], "1")))]

\* the reconciliation of lines 252-276 applied again to the line it produced, with the
\* same resolved assessment
SecondPass == Reconcile(last.after, quality)

\* C1: icon reconciliation is idempotent: with the resolved assessment held fixed, a second
\* application of the reconciliation to the result of the first changes nothing.
C1_ReconcileIdempotent ==
    last.done /\ ~last.raised =>
        /\ ~SecondPass.raised
        /\ StrLine(SecondPass.line) = StrLine(last.after)

\* the index of a label in assessment_order
Rank(x) == CHOOSE i \in DOMAIN assessment_order : assessment_order[i] = x

\* C2: whenever the scan collects one or more recognised class labels, the returned class is
\* the collected label with the smallest index in assessment_order, whatever the order of
\* the banners.
C2_HighestRankedCandidate ==
    quality.done /\ quality.assessments # <<>> =>
        /\ quality.class \in Range(quality.assessments)
        /\ \A x \in Range(quality.assessments) : Rank(quality.class) <= Rank(x)

\* two banners, the better class second: [start, b] gives b
C2_Witness ==
    /\ quality.done
    /\ quality.assessments = <<"start", "b">>
    /\ quality.class = "b"

\* the class returned when no candidate was collected
FallbackClass(tp) ==
    IF "WikiProject Disambiguation" \in Range(TalkText(tp)) THEN "dab" ELSE "unassessed"

\* C3 as stated: with no candidate collected, the class is "dab" or "unassessed" and the two
\* returned flags are the is_dga / is_ffa values computed by the template scan.
C3_FallbackReturnsScanFlags ==
    quality.done /\ quality.assessments = <<>> =>
        /\ quality.class = FallbackClass(quality.talk_page)
        /\ quality.is_dga = quality.scan_dga
        /\ quality.is_ffa = quality.scan_ffa

\* C3 as amended: with no candidate collected, the class is "dab" or "unassessed" and both
\* returned flags are false, whatever the template scan computed.
C3_FallbackReturnsFalseFlags ==
    quality.done /\ quality.assessments = <<>> =>
        /\ quality.class = FallbackClass(quality.talk_page)
        /\ ~quality.is_dga
        /\ ~quality.is_ffa

\* a delisted-GA template, the disambiguation banner, no class: "dab", and is_dga is dropped
C3_Witness ==
    /\ quality.done
    /\ quality.assessments = <<>>
    /\ quality.scan_dga
    /\ ~quality.is_dga
    /\ quality.class = "dab"

\* the flag updates of the scan as C10 states them, applied in document order
RECURSIVE FlagsInDocumentOrder(_)
FlagsInDocumentOrder(ts) ==
    IF ts = <<>> THEN [is_dga |-> FALSE, is_ffa |-> FALSE]
    ELSE LET earlier == FlagsInDocumentOrder(SubSeq(ts, 1, Len(ts) - 1))
             t == ts[Len(ts)]
         IN  IF Lower(t.name) \in article_history_templates /\ HasParam(t, "currentstatus")
             THEN [is_dga |-> Lower(CurStatus(t)) = <<"dga">>,
                   is_ffa |-> Lower(CurStatus(t)) = <<"ffa">>]
             ELSE IF Lower(t.name) \in dga_templates
                  THEN [earlier EXCEPT !.is_dga = TRUE]
                  ELSE earlier

\* C10 as stated: the returned flags are the result of applying the updates (article history
\* with currentstatus overwrites both, without it changes nothing, a delisted-GA alias sets
\* is_dga) in document order.
C10_ReturnedFlagsFollowScan ==
    quality.done =>
        [is_dga |-> quality.is_dga, is_ffa |-> quality.is_ffa]
            = FlagsInDocumentOrder(quality.talk_page.templates)

\* C10 as amended: the flags of the scan are the result of applying the updates in document
\* order; they are the returned flags whenever at least one class candidate was collected,
\* and with no candidate both returned flags are false.
C10_ScanFlagsFollowDocumentOrder ==
    quality.done =>
        /\ [is_dga |-> quality.scan_dga, is_ffa |-> quality.scan_ffa]
               = FlagsInDocumentOrder(quality.talk_page.templates)
        /\ quality.assessments # <<>> =>
               [is_dga |-> quality.is_dga, is_ffa |-> quality.is_ffa]
                   = FlagsInDocumentOrder(quality.talk_page.templates)
        /\ quality.assessments = <<>> => ~quality.is_dga /\ ~quality.is_ffa

\* a delisted-GA template with a class, then an article history whose status is GA: the
\* history overwrites is_dga
C10_Witness ==
    /\ quality.done
    /\ quality.assessments # <<>>
    /\ Len(quality.talk_page.templates) = 2
    /\ Lower(quality.talk_page.templates[1].name) \in dga_templates
    /\ Lower(quality.talk_page.templates[2].name) \in article_history_templates
    /\ HasParam(quality.talk_page.templates[2], "currentstatus")
    /\ ~quality.is_dga

\* a heading without its white space
NotSpace(t) == ~IsSpace(t)
Unspaced(h) == SelectSeq(h, NotSpace)

\* the heading C4 expects for a rewritten section: marks, title, the fresh count, the
\* denominator if any, the singular or plural word, marks
ExpectedHeader(r) ==
    old_header_match(r.old_header).marks \o old_header_match(r.old_header).title
    \o <<"(", NumStr(r.article_count)>> \o old_header_match(r.old_header).den
    \o <<IF r.article_count = 1 THEN "article" ELSE "articles", ")">>
    \o old_header_match(r.old_header).marks

\* C4: for every section whose heading matches the count pattern and has no quota annotation,
\* the rewritten heading has the same marks and title, the fresh count, and the word
\* "article" for a count of 1 and "articles" otherwise (white space aside).
C4_RewriteChangesOnlyCount ==
    \A k \in DOMAIN headers :
        headers[k].matched /\ ~QuotaIn(headers[k].old_header) =>
            Unspaced(headers[k].new_header) = Unspaced(ExpectedHeader(headers[k]))

\* C5: the rewritten heading carries "quota" if and only if the original heading did, text
\* elsewhere in the section having no influence, and the original "/secondary" denominator
\* appears unchanged in it.
C5_QuotaPreserved ==
    \A k \in DOMAIN headers :
        headers[k].matched =>
            /\ QuotaIn(headers[k].new_header) <=> QuotaIn(headers[k].old_header)
            /\ Contains(headers[k].new_header, old_header_match(headers[k].old_header).den)

\* the summary marker has been updated (lines 231-237 are behind treat_page)
HugeDone ==
    \/ pc \in {"lines", "switch", "done", "exited"}
    \/ crash = "ValueError: insert_after at lines 274-276"

\* the places <<line, item>> of the summary markers on the page
HugeMarkers ==
    {ij \in UNION {{<<i, j>> : j \in DOMAIN page[i]} : i \in DOMAIN page} :
        IsHuge(page[ij[1]][ij[2]])}

\* the smallest depth in 1..9 that has a section
ShallowestDepth(pg) ==
    CHOOSE d \in 1..9 :
        SectionsAtLevel(pg, d) # {} /\ \A e \in 1..(d - 1) : SectionsAtLevel(pg, e) = {}

\* the section views whose heading is at the smallest depth
ShallowestViews(pg) ==
    IF HeadingLines(pg) = {} THEN {}
    ELSE {k \in DOMAIN secs : HeadingLevel(pg[secs[k].start][1].toks) = ShallowestDepth(pg)}

RECURSIVE FreshSum(_)
FreshSum(S) ==
    IF S = {} THEN 0
    ELSE (IF headers[Min(S)].matched THEN headers[Min(S)].article_count ELSE 0)
         + FreshSum(S \ {Min(S)})

\* the number a heading displays to the aggregation: the first number that the count suffix
\* and ")" follow; 0 when there is none
Displayed(h) == IF heading_match(h).matched THEN ParseInt(heading_match(h).count) ELSE 0

RECURSIVE DisplayedSum(_, _)
DisplayedSum(pg, S) ==
    IF S = {} THEN 0
    ELSE Displayed(pg[secs[Min(S)].start][1].toks) + DisplayedSum(pg, S \ {Min(S)})

\* the "/denominator" suffix of the marker's previous value
NotQuote(t) == t \notin {"'", "''", "'''"}
PreviousDenominator(t) ==
    IF HasParam(t, "1") /\ "/" \in Range(ParamStr(GetParam(t, "1")))
    THEN <<"/">> \o SelectSeq(SplitLast(ParamStr(GetParam(t, "1")), "/"), NotQuote)
    ELSE <<>>

TotalValue(n, old) == <<"Total", " ", "articles", ":", " ", NumStr(n)>> \o PreviousDenominator(old)

\* C6 as stated: the value written into the summary marker is "Total articles: N" with N the
\* sum of the freshly recomputed counts of the count-matching headings at the smallest depth
\* that has a section, followed by the marker's previous "/denominator" suffix.
C6_TotalOfFreshCounts ==
    HugeDone =>
        \A ij \in HugeMarkers :
            ParamStr(GetParam(page[ij[1]][ij[2]], "1"))
                = TotalValue(FreshSum(ShallowestViews(page)), text[ij[1]][ij[2]])

\* C6 as amended: N is the sum of the numbers displayed, after the rewrite pass, by the
\* headings at the smallest depth that has a section (the first number in the heading that
\* the count suffix and ")" follow); a rewritten heading whose title holds no parenthesis
\* displays its fresh count; the previous "/denominator" suffix follows.
C6_TotalOfDisplayedCounts ==
    HugeDone =>
        /\ \A ij \in HugeMarkers :
              ParamStr(GetParam(page[ij[1]][ij[2]], "1"))
                  = TotalValue(DisplayedSum(page, ShallowestViews(page)), text[ij[1]][ij[2]])
        /\ \A k \in DOMAIN headers :
              headers[k].matched /\ ")" \notin Range(old_header_match(headers[k].old_header).title)
                  => Displayed(headers[k].new_header) = headers[k].article_count

\* a page with headings at two depths, both displaying a count, and a marker whose previous
\* value had a denominator: only the shallower depth is added up
C6_Witness ==
    /\ pc = "done"
    /\ \E i, j \in HeadingLines(page) :
          /\ HeadingLevel(page[i][1].toks) < HeadingLevel(page[j][1].toks)
          /\ Displayed(page[i][1].toks) > 0
          /\ Displayed(page[j][1].toks) > 0
    /\ \E ij \in HugeMarkers : PreviousDenominator(text[ij[1]][ij[2]]) # <<>>
    /\ total_count > 0

\* C7: on a line with a primary icon marker and a delisted-GA sentinel, in either order,
\* reconciling with class "ga" removes the sentinel and leaves the primary marker, with the
\* value "ga"; likewise for a former-FA sentinel and class "fa".
C7_OnlySentinelRemoved ==
    \A s \in {<<"dga", "ga">>, <<"ffa", "fa">>} :
        /\ last.done
        /\ quality.class = s[2]
        /\ Len(MarkerCodes(last.before)) = 2
        /\ \E a, b \in 1..2 :
              /\ MarkerCodes(last.before)[a] = <<s[1]>>
              /\ MarkerCodes(last.before)[b] \notin no_replace_list
        => /\ <<s[1]>> \notin Range(MarkerCodes(last.after))
           /\ <<s[2]>> \in Range(MarkerCodes(last.after))

\* the icon-marker templates of a line
IconPositions(line) == {i \in DOMAIN line : line[i].kind = "template" /\ IsIconItem(line[i])}
Sentinel(code) == Template(<<"icon">>, <<Positional(<<code>>)>>)
SentinelCount(line, code) == Cardinality({i \in DOMAIN line : line[i] = Sentinel(code)})

\* a sentinel is due: the flag is set and the line has no such marker
Due(code) ==
    /\ last.done /\ ~last.raised
    /\ IconPositions(last.before) # {}
    /\ <<code>> \notin Range(MarkerCodes(last.before))
    /\ IF code = "ffa" THEN quality.is_ffa ELSE quality.is_dga

\* C8: when a sentinel is due, exactly one is inserted, directly after the first icon marker
\* of the line, and a second run inserts no other.
C8_SentinelAfterFirstIcon ==
    \A code \in {"ffa", "dga"} :
        Due(code) /\ (code = "dga" => ~Due("ffa")) =>
            /\ SentinelCount(last.after, code) = 1
            /\ Min(IconPositions(last.after)) + 2 <= Len(last.after)
            /\ last.after[Min(IconPositions(last.after)) + 2] = Sentinel(code)
            /\ SentinelCount(SecondPass.line, code) <= 1

\* C9: no defective unit (a marker template or a list-item line) aborts treat_page.
C9_NoUnitAborts ==
    crash \notin {"ValueError: template.get at line 234",
                  "ValueError: insert_after at lines 274-276"}


\* the icon markers of a line that carry a first parameter, in document order
Markers(line) == SelectSeq(line, IsMarker)
\* the value of a marker's first parameter, lower-cased
FirstValue(node) == Lower(GetParam(node, "1").value)
IsPrimary(node) == IsMarker(node) /\ FirstValue(node) \notin no_replace_list
PrimaryMarkers(line) == SelectSeq(line, IsPrimary)

\* no marker of the line is removed: the markers afterwards are those before, in order,
\* followed by the inserted sentinels
NothingRemoved ==
    /\ ~(quality.class = "ga" /\ <<"dga">> \in Range(MarkerCodes(last.before)))
    /\ ~(quality.class = "fa" /\ <<"ffa">> \in Range(MarkerCodes(last.before)))

\* the marker is the first of its line, its value differs from the resolved class and is
\* no protected sentinel value
OverwriteDue(line, i) ==
    /\ i = 1
    /\ FirstValue(Markers(line)[i]) # <<quality.class>>
    /\ FirstValue(Markers(line)[i]) \notin no_replace_list

\* C11: reconciliation overwrites at most one icon marker per line, the first one: its
\* first parameter is set to the resolved class exactly when it differs, case-insensitively,
\* from the class and is no protected sentinel value (dga, ffa, ffac); every later marker and
\* every sentinel marker keeps its first parameter, and the number of primary markers of
\* the line never grows.
C11_OverwritesOnlyFirstMarker ==
    last.done =>
        /\ Len(PrimaryMarkers(last.after)) <= Len(PrimaryMarkers(last.before))
        /\ NothingRemoved =>
              /\ Len(Markers(last.after)) >= Len(Markers(last.before))
              /\ \A i \in DOMAIN Markers(last.before) :
                    IF OverwriteDue(last.before, i)
                    THEN GetParam(Markers(last.after)[i], "1").value = <<quality.class>>
                    ELSE Markers(last.after)[i] = Markers(last.before)[i]

\* the list items of section view k that open with the list marker and an Icon template,
\* the items of its nested sub-sections included
MarkedItems(k, marker) ==
    {i \in secs[k].start..secs[k].end :
        /\ Len(text[i]) >= 3
        /\ text[i][1] = Tag(marker)
        /\ text[i][2] = Text(<<" ">>)
        /\ text[i][3].kind = "template"
        /\ Head(text[i][3].name) = "Icon"}

\* the count a rewritten heading holds: the number behind its last "("
WrittenCount(h) == Head(SplitLast(h, "("))

\* C12: the count written into the heading of every non-lead section is the number of its
\* "# {{Icon" items (those of its nested sub-sections included) when that is at least 1, and
\* the number of its "* {{Icon" items otherwise; the two are never added together.
C12_CountWithFallback ==
    \A k \in DOMAIN headers :
        /\ headers[k].article_count
              = IF Cardinality(MarkedItems(k, "#")) >= 1
                THEN Cardinality(MarkedItems(k, "#"))
                ELSE Cardinality(MarkedItems(k, "*"))
        /\ headers[k].matched =>
              WrittenCount(headers[k].new_header) = NumStr(headers[k].article_count)

\* a section with items of both kinds that holds a nested sub-section, and that sub-section
\* with "*" items only, both with a rewritten heading
C12_Witness ==
    \E k, j \in DOMAIN headers :
        /\ headers[k].matched /\ headers[j].matched
        /\ j > k /\ secs[j].start <= secs[k].end
        /\ Cardinality(MarkedItems(k, "#")) >= 1
        /\ Cardinality(MarkedItems(k, "*")) > Cardinality(MarkedItems(j, "*"))
        /\ Cardinality(MarkedItems(j, "#")) = 0
        /\ Cardinality(MarkedItems(j, "*")) >= 1


\* the shut-off page of task 9 reads "active" once white space is stripped
SwitchOn == Strip(switch_text) = <<"active">>

\* the section recount, the total and the line loop are over
AllFinished ==
    /\ pc = "switch"
    /\ crash = ""
    /\ si > Len(secs)
    /\ skip_assessment \/ li > Len(page)

\* C13: in every run of treat_page put_current is called at most once, only after all
\* counting, aggregation and icon reconciliation have finished and only if the shut-off
\* page reads "active" after stripping white space, and it is handed the final tree; when
\* the switch is off at that point the run ends with exit status 1 and nothing is saved.
C13_SavedOnlyWhenSwitchOn ==
    /\ [](/\ put_count <= 1
          /\ put_count = 1 => SwitchOn /\ saved = page /\ exit_status = -1
          /\ exit_status # -1 =>
                exit_status = 1 /\ ~SwitchOn /\ put_count = 0 /\ saved = <<>>)
    /\ [][/\ put_count' # put_count =>
                AllFinished /\ SwitchOn /\ put_count' = 1 /\ saved' = page /\ page' = page
          /\ AllFinished /\ ~SwitchOn =>
                exit_status' = 1 /\ pc' = "exited" /\ put_count' = 0 /\ saved' = <<>>
          /\ pc \notin {"done", "exited", "crashed"}]_vars

\* a run over a whole page that reconciled a line, changed the text and saved it, the
\* shut-off page reading " active\n"
C13_Witness ==
    /\ pc = "done" /\ put_count = 1
    /\ switch_text = <<" ", "active", "\n">>
    /\ ~skip_assessment /\ last.done
    /\ saved # text
=============================================================================
